---- MODULE Spec2Model ----
(***************************************************************************)
(* Book Wrap 2025 (src/src/App.tsx): the App component's state, its event  *)
(* handlers, the CSV completion callback (normalise, filter, count) and    *)
(* the statistics and persona computed from the state at every render.     *)
(*                                                                         *)
(* Data representation                                                     *)
(*   - a JS string is a sequence of one-character strings; `undefined` is  *)
(*     a sequence no string can equal (its element has several characters) *)
(*   - a raw CSV row is a function from the column names present in the    *)
(*     row to strings: a column the decoder did not deliver is outside     *)
(*     the row's DOMAIN, as a missing key of the JS object is              *)
(*   - a JS number that may be NaN is [nan, v]                             *)
(*   - a Date | null is [t |-> "null"], [t |-> "invalid"] (Invalid Date)   *)
(*     or [t |-> "date", y, m, d] with m the 0-based month of getMonth()   *)
(*   - a rating is held in hundredths of a star (RatingScale), so that     *)
(*     parseFloat's fractional ratings stay integers                       *)
(***************************************************************************)
EXTENDS Integers, Sequences, FiniteSets, TLC

VARIABLES
    readData,      \* useState<BookData[]>([])
    tbrCount,      \* useState(0)
    view,          \* useState<'upload' | 'story'>('upload')
    currentSlide,  \* useState(0)
    username,      \* useState('')
    pending,       \* Papa.parse calls whose complete callback has not fired yet,
                   \* in the order they were started
    lastStarted,   \* history: the upload handleFileUpload started last
    lastDone,      \* history: the upload whose complete callback fired last
    crashed,       \* a render of App threw (no error boundary: React unmounts the tree)
    alerted,       \* history: handleFileUpload has called alert() at least once
    renderedSlide, \* the currentSlide of the render whose callbacks are subscribed
    lastResult,    \* history: what the last completion left for its render
    uploadSinceClose, \* history: a parse was started since the story was last closed
    statsIn,       \* classifier harness: the statistics vector given to getAura
    auraOut        \* classifier harness: the name getAura returned for statsIn

vars == <<readData, tbrCount, view, currentSlide, username, pending,
          lastStarted, lastDone, crashed, alerted, renderedSlide, lastResult,
          uploadSinceClose, statsIn, auraOut>>

appVars == <<readData, tbrCount, view, currentSlide, username, pending,
             lastStarted, lastDone, crashed, alerted, renderedSlide, lastResult,
             uploadSinceClose>>

-----------------------------------------------------------------------------
(* Bounds of the model *)

MaxRows == 2        \* longest file built from CoreRows
MaxBulk == 6        \* most copies of one row in a bulk file
MaxPending == 2     \* most uploads in flight at once
LongRun == 17       \* copies of the first row in a long file
MaxOverrun == 2     \* how far key events may carry currentSlide past either end

-----------------------------------------------------------------------------
(* Program constants *)

TargetYear == 2025
NumSlides == 7
RatingScale == 100

-----------------------------------------------------------------------------
(* JS strings and numbers *)

undefined == <<"undefined">>

Digits == {"0", "1", "2", "3", "4", "5", "6", "7", "8", "9"}

DigitVal(c) ==
    CASE c = "0" -> 0 [] c = "1" -> 1 [] c = "2" -> 2 [] c = "3" -> 3
      [] c = "4" -> 4 [] c = "5" -> 5 [] c = "6" -> 6 [] c = "7" -> 7
      [] c = "8" -> 8 [] c = "9" -> 9

WhiteSpace == {" ", "\t"}

\* A string is truthy unless it is undefined or empty.
Truthy(s) == s # undefined /\ s # <<>>

RECURSIVE TrimStart(_)
TrimStart(s) ==
    IF s # <<>> /\ Head(s) \in WhiteSpace THEN TrimStart(Tail(s)) ELSE s

RECURSIVE TrimEnd(_)
TrimEnd(s) ==
    IF s # <<>> /\ s[Len(s)] \in WhiteSpace
    THEN TrimEnd(SubSeq(s, 1, Len(s) - 1))
    ELSE s

\* String.prototype.trim
trim(s) == TrimEnd(TrimStart(s))

\* The longest prefix of s made of digits, and what follows it.
RECURSIVE DigitPrefixLen(_)
DigitPrefixLen(s) ==
    IF s # <<>> /\ Head(s) \in Digits THEN 1 + DigitPrefixLen(Tail(s)) ELSE 0

RECURSIVE DigitsValue(_, _)
DigitsValue(s, acc) ==
    IF s = <<>> THEN acc ELSE DigitsValue(Tail(s), 10 * acc + DigitVal(Head(s)))

NaN == [nan |-> TRUE, v |-> 0]
Num(n) == [nan |-> FALSE, v |-> n]

\* parseInt(s) in radix 10: leading white space, an optional sign, then the
\* longest run of digits; NaN when there is no digit. parseInt(undefined)
\* parses the string "undefined", which is NaN.
parseInt(s) ==
    IF s = undefined THEN NaN
    ELSE LET t == TrimStart(s)
             signed == t # <<>> /\ Head(t) \in {"-", "+"}
             u == IF signed THEN Tail(t) ELSE t
             n == DigitPrefixLen(u)
             mag == DigitsValue(SubSeq(u, 1, n), 0)
         IN  IF n = 0 THEN NaN
             ELSE Num(IF signed /\ Head(t) = "-" THEN 0 - mag ELSE mag)

\* parseFloat(s), in hundredths: as parseInt, with an optional fraction after
\* the integer digits. Exact for fractions of at most two digits.
parseFloat(s) ==
    IF s = undefined THEN NaN
    ELSE LET t == TrimStart(s)
             signed == t # <<>> /\ Head(t) \in {"-", "+"}
             u == IF signed THEN Tail(t) ELSE t
             n == DigitPrefixLen(u)
             rest == SubSeq(u, n + 1, Len(u))
             hasDot == rest # <<>> /\ Head(rest) = "."
             frac == IF hasDot THEN Tail(rest) ELSE <<>>
             k == DigitPrefixLen(frac)
             d1 == IF k >= 1 THEN DigitVal(frac[1]) ELSE 0
             d2 == IF k >= 2 THEN DigitVal(frac[2]) ELSE 0
             mag == RatingScale * DigitsValue(SubSeq(u, 1, n), 0) + 10 * d1 + d2
         IN  IF n = 0 /\ k = 0 THEN NaN
             ELSE Num(IF signed /\ Head(t) = "-" THEN 0 - mag ELSE mag)

\* x || 0 on a number: NaN and 0 are falsy.
OrZero(x) == IF x.nan \/ x.v = 0 THEN 0 ELSE x.v

-----------------------------------------------------------------------------
(* JS dates *)

null == [t |-> "null"]
InvalidDate == [t |-> "invalid"]

DaysIn(y, m) ==
    CASE m \in {4, 6, 9, 11} -> 30
      [] m = 2 -> IF y % 4 = 0 /\ (y % 100 # 0 \/ y % 400 = 0) THEN 29 ELSE 28
      [] OTHER -> 31

\* new Date(s) for the Goodreads date format YYYY/MM/DD (local time); any other
\* text of the model's inputs is not a date and gives Invalid Date.
NewDate(s) ==
    IF /\ Len(s) = 10
       /\ s[5] = "/" /\ s[8] = "/"
       /\ \A i \in {1, 2, 3, 4, 6, 7, 9, 10} : s[i] \in Digits
    THEN LET y == DigitsValue(SubSeq(s, 1, 4), 0)
             m == DigitsValue(SubSeq(s, 6, 7), 0)
             d == DigitsValue(SubSeq(s, 9, 10), 0)
         IN  IF m \in 1..12 /\ d \in 1..DaysIn(y, m)
             THEN [t |-> "date", y |-> y, m |-> m - 1, d |-> d]
             ELSE InvalidDate
    ELSE InvalidDate

\* A Date object is truthy, Invalid Date included; null is not.
DateTruthy(d) == d # null

\* d.getFullYear() === y: getFullYear() of Invalid Date is NaN, equal to nothing.
FullYearIs(d, y) == d.t = "date" /\ d.y = y

-----------------------------------------------------------------------------
(* 1. Parse raw data: one BookData per row *)

ShelfRead == <<"r", "e", "a", "d">>
ShelfToRead == <<"t", "o", "-", "r", "e", "a", "d">>

Field(row, col) == IF col \in DOMAIN row THEN row[col] ELSE undefined

NormalizeGoodreads(row) ==
    LET dateReadStr == Field(row, "Date Read")
        dateAddedStr == Field(row, "Date Added")
    IN  [ title     |-> Field(row, "Title"),
          author    |-> Field(row, "Author"),
          pages     |-> OrZero(parseInt(Field(row, "Number of Pages"))),
          rating    |-> RatingScale * OrZero(parseInt(Field(row, "My Rating"))),
          dateRead  |-> IF Truthy(dateReadStr) THEN NewDate(dateReadStr) ELSE null,
          dateAdded |-> IF Truthy(dateAddedStr) THEN NewDate(dateAddedStr) ELSE null,
          shelf     |-> Field(row, "Exclusive Shelf") ]

\* A StoryGraph normaliser that passes the status column through as the shelf.
NormalizeStorygraph_ShelfAsIs(row) ==
    [ title     |-> Field(row, "Title"),
      author    |-> Field(row, "Authors"),
      pages     |-> OrZero(parseInt(Field(row, "Pages"))),
      rating    |-> OrZero(parseFloat(Field(row, "Star Rating"))),
      dateRead  |-> IF Truthy(Field(row, "Read Date"))
                    THEN NewDate(Field(row, "Read Date")) ELSE null,
      dateAdded |-> null,
      shelf     |-> Field(row, "Read Status") ]

NormalizeStorygraph(row) ==
    [ title     |-> Field(row, "Title"),
      author    |-> Field(row, "Authors"),
      pages     |-> OrZero(parseInt(Field(row, "Pages"))),
      rating    |-> OrZero(parseFloat(Field(row, "Star Rating"))),
      dateRead  |-> IF Truthy(Field(row, "Read Date"))
                    THEN NewDate(Field(row, "Read Date")) ELSE null,
      dateAdded |-> null,
      shelf     |-> IF Field(row, "Read Status") = ShelfRead
                    THEN ShelfRead ELSE ShelfToRead ]

NormalizeRow(row, source) ==
    IF source = "goodreads" THEN NormalizeGoodreads(row) ELSE NormalizeStorygraph(row)

\* rows.map(...)
allBooksOf(rows, source) ==
    [i \in 1..Len(rows) |-> NormalizeRow(rows[i], source)]

-----------------------------------------------------------------------------
(* 2. and 3. The year filters of the completion callback *)

\* Mutant: the dateAdded fallback applied whatever dateRead holds.
ReadIn2025Filter_FallbackAnyDateRead(b) ==
    IF b.shelf # ShelfRead THEN FALSE
    ELSE IF DateTruthy(b.dateRead) /\ FullYearIs(b.dateRead, TargetYear) THEN TRUE
    ELSE IF DateTruthy(b.dateAdded) /\ FullYearIs(b.dateAdded, TargetYear) THEN TRUE
    ELSE FALSE

\* The predicate of allBooks.filter(...) that builds readIn2025.
ReadIn2025Filter(b) ==
    IF b.shelf # ShelfRead THEN FALSE
    ELSE IF DateTruthy(b.dateRead) /\ FullYearIs(b.dateRead, TargetYear) THEN TRUE
    ELSE IF ~DateTruthy(b.dateRead) /\ DateTruthy(b.dateAdded)
            /\ FullYearIs(b.dateAdded, TargetYear) THEN TRUE
    ELSE FALSE

\* Mutant: no backfill.
Backfill_None(b) == b

\* The .map(...) after the filter: an empty dateRead is filled with dateAdded.
Backfill(b) ==
    IF ~DateTruthy(b.dateRead) /\ DateTruthy(b.dateAdded)
    THEN [b EXCEPT !.dateRead = b.dateAdded]
    ELSE b

RECURSIVE FilterSeq(_, _)
FilterSeq(s, keep) ==
    IF s = <<>> THEN <<>>
    ELSE (IF keep[1] THEN <<Head(s)>> ELSE <<>>)
         \o FilterSeq(Tail(s), Tail(keep))

readIn2025Of(allBooks) ==
    LET kept == FilterSeq(allBooks, [i \in 1..Len(allBooks) |-> ReadIn2025Filter(allBooks[i])])
    IN  [i \in 1..Len(kept) |-> Backfill(kept[i])]

\* Mutant: dateRead used when dateAdded is not in the year.
AddedToTbr2025Filter_DateReadFallback(b) ==
    /\ b.shelf = ShelfToRead
    /\ \/ DateTruthy(b.dateAdded) /\ FullYearIs(b.dateAdded, TargetYear)
       \/ DateTruthy(b.dateRead) /\ FullYearIs(b.dateRead, TargetYear)

\* A backlog predicate that does not look at the shelf.
AddedToTbr2025Filter_AnyShelf(b) ==
    /\ DateTruthy(b.dateAdded)
    /\ FullYearIs(b.dateAdded, TargetYear)

\* The predicate of allBooks.filter(...) that builds addedToTbr2025.
AddedToTbr2025Filter(b) ==
    /\ b.shelf = ShelfToRead
    /\ DateTruthy(b.dateAdded)
    /\ FullYearIs(b.dateAdded, TargetYear)

addedToTbr2025Of(allBooks) ==
    FilterSeq(allBooks, [i \in 1..Len(allBooks) |-> AddedToTbr2025Filter(allBooks[i])])

-----------------------------------------------------------------------------
(* Statistics, computed from readData and tbrCount at every render *)

RECURSIVE SumOver(_, _)
SumOver(s, f) == IF s = <<>> THEN 0 ELSE f[1] + SumOver(Tail(s), Tail(f))

\* A total that also counts the backlog.
totalBooksOf_PlusBacklog(data) == Len(data) + tbrCount

totalBooksOf(data) == Len(data)

totalPagesOf(data) == SumOver(data, [i \in 1..Len(data) |-> data[i].pages])

\* Math.round(x / n) for n > 0: the integer nearest x / n, halves rounded up.
MathRoundDiv(x, n) == (2 * x + n) \div (2 * n)

avgPagesOf(data) ==
    IF totalBooksOf(data) > 0
    THEN MathRoundDiv(totalPagesOf(data), totalBooksOf(data))
    ELSE 0

\* The mean without the totalBooks > 0 test: 0 / 0 for an empty list.
avgRatingValOf_NoGuard(data) ==
    [num |-> SumOver(data, [i \in 1..Len(data) |-> data[i].rating]),
     den |-> RatingScale * totalBooksOf(data)]

\* avgRatingVal as the exact fraction num / den of stars.
avgRatingValOf(data) ==
    IF totalBooksOf(data) > 0
    THEN [num |-> SumOver(data, [i \in 1..Len(data) |-> data[i].rating]),
          den |-> RatingScale * totalBooksOf(data)]
    ELSE [num |-> 0, den |-> 1]

DigitChar(d) == CHOOSE c \in Digits : DigitVal(c) = d

RECURSIVE NatToString(_)
NatToString(n) ==
    IF n < 10 THEN <<DigitChar(n)>>
    ELSE NatToString(n \div 10) \o <<DigitChar(n % 10)>>

\* The odd k below 100 for which the double nearest to k / 20 is not below k / 20:
\* toFixed(1) rounds such a value up, the other odd twentieths down (4.05 is held
\* as 4.04999..., 3.95 as 3.95000...01).
HalfWayUp ==
    {1, 5, 9, 11, 13, 15, 21, 25, 27, 31, 35, 37, 45, 47, 49, 55, 57, 59, 65, 67,
     69, 75, 77, 79, 83, 85, 89, 93, 95, 99}

\* The number of tenths nearest to the double r.num / r.den >= 0 (for means of 5
\* stars or less; the model's ratings are 0 to 5 stars).
NearestTenths(r) ==
    LET lo == (10 * r.num) \div r.den
        rest == (10 * r.num) % r.den
    IN  IF 2 * rest > r.den THEN lo + 1
        ELSE IF 2 * rest < r.den THEN lo
        ELSE IF (2 * lo + 1) \in HalfWayUp THEN lo + 1 ELSE lo

\* Number.prototype.toFixed(1) of the fraction r; 0 / 0 is NaN.
toFixed1(r) ==
    IF r.den = 0 THEN <<"N", "a", "N">>
    ELSE LET a == [r EXCEPT !.num = IF r.num < 0 THEN 0 - r.num ELSE r.num]
             tenths == NearestTenths(a)
         IN  (IF r.num < 0 THEN <<"-">> ELSE <<>>)
             \o NatToString(tenths \div 10) \o <<".">> \o <<DigitChar(tenths % 10)>>

avgRatingOf(data) == toFixed1(avgRatingValOf(data))

\* r < a / b and r >= a / b for a fraction r with r.den > 0 and b > 0.
FracLt(r, a, b) == r.num * b < a * r.den
FracGe(r, a, b) == r.num * b >= a * r.den

\* book.author.split('(') throws a TypeError when author is undefined.
AuthorSplitThrows(data) == \E i \in 1..Len(data) : data[i].author = undefined

\* A render of App with this readData throws.
RenderThrows(data) == AuthorSplitThrows(data)

-----------------------------------------------------------------------------
(* Thickest book, top books, top authors, displayed average *)

\* The initial value of the reduce at line 201.
ThickestSentinel == [title |-> <<"-">>, pages |-> 0, author |-> <<"-">>]

\* The accumulator after the callback has seen data[i..]: the callback keeps prev
\* only when prev.pages > current.pages. This variant keeps prev on ties too.
RECURSIVE ReduceThickest_KeepFirst(_, _, _)
ReduceThickest_KeepFirst(data, i, prev) ==
    IF i > Len(data) THEN prev
    ELSE ReduceThickest_KeepFirst(data, i + 1,
             IF prev.pages >= data[i].pages THEN prev ELSE data[i])

thickestBookOf_KeepFirst(data) == ReduceThickest_KeepFirst(data, 1, ThickestSentinel)

RECURSIVE ReduceThickest(_, _, _)
ReduceThickest(data, i, prev) ==
    IF i > Len(data) THEN prev
    ELSE ReduceThickest(data, i + 1,
             IF prev.pages > data[i].pages THEN prev ELSE data[i])

thickestBookOf(data) == ReduceThickest(data, 1, ThickestSentinel)

\* Array.prototype.sort with a consistent comparator: a stable sort. cmp[j][i] is
\* what the comparator returns for (s[j], s[i]). The element at index i lands
\* after the elements that compare before it and after the elements that compare
\* equal to it and precede it in s.
StableSort(s, cmp) ==
    LET at == [i \in 1..Len(s) |->
                  1 + Cardinality({j \in 1..Len(s) :
                          \/ cmp[j][i] < 0
                          \/ cmp[j][i] = 0 /\ j < i})]
    IN  [k \in 1..Len(s) |-> s[CHOOSE i \in 1..Len(s) : at[i] = k]]

\* s.slice(0, n)
SliceTo(s, n) == SubSeq(s, 1, IF Len(s) < n THEN Len(s) ELSE n)

\* The comparator of topBooks, and one that breaks rating ties by fewer pages.
TopBooksCompare_PagesAscending(a, b) ==
    IF b.rating # a.rating THEN b.rating - a.rating ELSE a.pages - b.pages

TopBooksCompare(a, b) ==
    IF b.rating # a.rating THEN b.rating - a.rating ELSE b.pages - a.pages

topBooksOf(data) ==
    LET rated == FilterSeq(data, [i \in 1..Len(data) |-> data[i].rating > 0])
    IN  SliceTo(StableSort(rated, [a \in 1..Len(rated) |-> [b \in 1..Len(rated) |->
                                          TopBooksCompare(rated[a], rated[b])]]), 5)

\* author.split('(')[0]: the text before the first '(' (all of it when there is none).
SplitFirst(s, sep) ==
    LET hits == {i \in 1..Len(s) : s[i] = sep}
    IN  IF hits = {} THEN s
        ELSE SubSeq(s, 1, (CHOOSE i \in hits : \A j \in hits : i <= j) - 1)

\* A variant that keeps the text as it is.
cleanAuthor_Raw(author) == author

cleanAuthor(author) == trim(SplitFirst(author, "("))

\* authorCounts[key] after the forEach: the number of records whose clean author is key.
authorCountOf(data, key) ==
    Cardinality({i \in 1..Len(data) : cleanAuthor(data[i].author) = key})

\* The keys of authorCounts in the order the forEach created them.
authorKeysOf(data) ==
    LET clean == [i \in 1..Len(data) |-> cleanAuthor(data[i].author)]
    IN  FilterSeq(clean, [i \in 1..Len(data) |-> \A j \in 1..(i - 1) : clean[j] # clean[i]])

\* A property key that is an array index: canonical decimal digits (keys of ten
\* digits up to 4294967294 are indices too; no text of the model is that long).
IsArrayIndex(key) ==
    /\ Len(key) \in 1..9
    /\ \A i \in 1..Len(key) : key[i] \in Digits
    /\ Len(key) > 1 => key[1] # "0"

IndexKeyCompare(a, b) == DigitsValue(a, 0) - DigitsValue(b, 0)

\* The own keys of an object whose keys were created in the order `keys`: array
\* indices in ascending numeric order, then the other keys in creation order.
\* This variant lists every key in creation order.
OwnKeys_CreationOrder(keys) == keys

OwnKeys(keys) ==
    LET indices == FilterSeq(keys, [i \in 1..Len(keys) |-> IsArrayIndex(keys[i])])
    IN  StableSort(indices, [a \in 1..Len(indices) |-> [b \in 1..Len(indices) |->
                                IndexKeyCompare(indices[a], indices[b])]])
        \o FilterSeq(keys, [i \in 1..Len(keys) |-> ~IsArrayIndex(keys[i])])

\* Object.entries(authorCounts): pairs <<key, count>>.
authorEntriesOf(data) ==
    LET keys == OwnKeys(authorKeysOf(data))
    IN  [k \in 1..Len(keys) |-> <<keys[k], authorCountOf(data, keys[k])>>]

TopAuthorsCompare(a, b) == b[2] - a[2]

topAuthorsOf(data) ==
    LET entries == authorEntriesOf(data)
    IN  SliceTo(StableSort(entries, [a \in 1..Len(entries) |-> [b \in 1..Len(entries) |->
                                        TopAuthorsCompare(entries[a], entries[b])]]), 5)

-----------------------------------------------------------------------------
(* Most active month *)

\* monthCounts: the count under every key getMonth() produced. The key of an
\* Invalid Date is NaN.
MonthKey(d) == IF d.t = "date" THEN Num(d.m) ELSE NaN

monthCountOf(data, key) ==
    Cardinality({i \in 1..Len(data) :
        DateTruthy(data[i].dateRead) /\ MonthKey(data[i].dateRead) = key})

\* Object.entries(monthCounts): the integer keys in ascending order, then "NaN".
MonthKeyOrder == [i \in 1..13 |-> IF i <= 12 THEN Num(i - 1) ELSE NaN]

RECURSIVE ScanMonths(_, _, _, _)
ScanMonths(data, i, maxMonth, maxCount) ==
    IF i > Len(MonthKeyOrder) THEN [maxMonth |-> maxMonth, maxCount |-> maxCount]
    ELSE LET c == monthCountOf(data, MonthKeyOrder[i])
         IN  IF c > 0 /\ c > maxCount
             THEN ScanMonths(data, i + 1, MonthKeyOrder[i], c)
             ELSE ScanMonths(data, i + 1, maxMonth, maxCount)

\* A scan in which a later month of equal count replaces the month held.
RECURSIVE ScanMonths_LastWins(_, _, _, _)
ScanMonths_LastWins(data, i, maxMonth, maxCount) ==
    IF i > Len(MonthKeyOrder) THEN [maxMonth |-> maxMonth, maxCount |-> maxCount]
    ELSE LET c == monthCountOf(data, MonthKeyOrder[i])
         IN  IF c > 0 /\ c >= maxCount
             THEN ScanMonths_LastWins(data, i + 1, MonthKeyOrder[i], c)
             ELSE ScanMonths_LastWins(data, i + 1, maxMonth, maxCount)

getMostActiveMonth_LastWins(data) ==
    IF Len(data) = 0 THEN [dash |-> TRUE]
    ELSE LET r == ScanMonths_LastWins(data, 1, Num(-1), -1)
         IN  IF r.maxMonth = Num(-1) THEN [dash |-> TRUE]
             ELSE [dash |-> FALSE, maxMonth |-> r.maxMonth, maxCount |-> r.maxCount]

\* "-" is [dash |-> TRUE]; otherwise the month found and its count.
getMostActiveMonth(data) ==
    IF Len(data) = 0 THEN [dash |-> TRUE]
    ELSE LET r == ScanMonths(data, 1, Num(-1), -1)
         IN  IF r.maxMonth = Num(-1) THEN [dash |-> TRUE]
             ELSE [dash |-> FALSE, maxMonth |-> r.maxMonth, maxCount |-> r.maxCount]

-----------------------------------------------------------------------------
(* Aura algorithm *)

AuraNames == {"COZY COLLECTOR", "DEEP DIVER", "SPEEDY SKEPTIC",
              "THOROUGH ENJOYER", "SOFT ENTHUSIAST", "BALANCED REALIST"}

\* Mutant: DEEP DIVER up to and including 15 books.
getAura_DeepDiverInclusive(tbr, total, avgP, avgR) ==
    IF tbr > (total * 2) /\ tbr > 5 THEN "COZY COLLECTOR"
    ELSE IF total <= 15 /\ avgP > 450 THEN "DEEP DIVER"
    ELSE IF total > 20 /\ avgP < 300 /\ FracLt(avgR, 38, 10) THEN "SPEEDY SKEPTIC"
    ELSE IF FracGe(avgR, 4, 1) /\ avgP > 350 THEN "THOROUGH ENJOYER"
    ELSE IF FracGe(avgR, 42, 10) THEN "SOFT ENTHUSIAST"
    ELSE "BALANCED REALIST"

\* Mutant: the SOFT ENTHUSIAST branch tested before THOROUGH ENJOYER.
getAura_SoftFirst(tbr, total, avgP, avgR) ==
    IF tbr > (total * 2) /\ tbr > 5 THEN "COZY COLLECTOR"
    ELSE IF total < 15 /\ avgP > 450 THEN "DEEP DIVER"
    ELSE IF total > 20 /\ avgP < 300 /\ FracLt(avgR, 38, 10) THEN "SPEEDY SKEPTIC"
    ELSE IF FracGe(avgR, 42, 10) THEN "SOFT ENTHUSIAST"
    ELSE IF FracGe(avgR, 4, 1) /\ avgP > 350 THEN "THOROUGH ENJOYER"
    ELSE "BALANCED REALIST"

\* Mutant: COZY COLLECTOR from 5 backlog books on.
getAura_TbrAtLeast5(tbr, total, avgP, avgR) ==
    IF tbr > (total * 2) /\ tbr >= 5 THEN "COZY COLLECTOR"
    ELSE IF total < 15 /\ avgP > 450 THEN "DEEP DIVER"
    ELSE IF total > 20 /\ avgP < 300 /\ FracLt(avgR, 38, 10) THEN "SPEEDY SKEPTIC"
    ELSE IF FracGe(avgR, 4, 1) /\ avgP > 350 THEN "THOROUGH ENJOYER"
    ELSE IF FracGe(avgR, 42, 10) THEN "SOFT ENTHUSIAST"
    ELSE "BALANCED REALIST"

\* A classifier that compares the mean as displayed, rounded to tenths of a star.
getAura_DisplayedRating(tbr, total, avgP, avgR) ==
    IF tbr > (total * 2) /\ tbr > 5 THEN "COZY COLLECTOR"
    ELSE IF total < 15 /\ avgP > 450 THEN "DEEP DIVER"
    ELSE IF total > 20 /\ avgP < 300 /\ NearestTenths(avgR) < 38 THEN "SPEEDY SKEPTIC"
    ELSE IF NearestTenths(avgR) >= 40 /\ avgP > 350 THEN "THOROUGH ENJOYER"
    ELSE IF NearestTenths(avgR) >= 42 THEN "SOFT ENTHUSIAST"
    ELSE "BALANCED REALIST"

\* getAura over the values it reads: tbrCount, totalBooks, avgPages, avgRatingVal.
getAura(tbr, total, avgP, avgR) ==
    IF tbr > (total * 2) /\ tbr > 5 THEN "COZY COLLECTOR"
    ELSE IF total < 15 /\ avgP > 450 THEN "DEEP DIVER"
    ELSE IF total > 20 /\ avgP < 300 /\ FracLt(avgR, 38, 10) THEN "SPEEDY SKEPTIC"
    ELSE IF FracGe(avgR, 4, 1) /\ avgP > 350 THEN "THOROUGH ENJOYER"
    ELSE IF FracGe(avgR, 42, 10) THEN "SOFT ENTHUSIAST"
    ELSE "BALANCED REALIST"

\* const aura = getAura() of a render with this state.
auraOf(data, tbr) ==
    getAura(tbr, totalBooksOf(data), avgPagesOf(data), avgRatingValOf(data))

-----------------------------------------------------------------------------
(* Inputs: the texts a column may hold, the rows and the files *)

StrT == <<"T">>
StrU == <<"U">>
StrN == <<"N">>
StrNG == <<"N", " ", "(", "G", ")">>
StrL == <<"L">>
Str7 == <<"7">>
StrEmpty == <<>>
StrAb == <<"a", "b">>
StrNeg5 == <<"-", "5">>
Str250 == <<"2", "5", "0">>
Str320 == <<"3", "2", "0">>
Str500 == <<"5", "0", "0">>
Str0 == <<"0">>
Str3 == <<"3">>
Str4 == <<"4">>
Str5 == <<"5">>
Str425 == <<"4", ".", "2", "5">>
StrNa == <<"n", "/", "a">>
Str2025Mar == <<"2", "0", "2", "5", "/", "0", "3", "/", "1", "0">>
Str2025Jan == <<"2", "0", "2", "5", "/", "0", "1", "/", "0", "5">>
Str2024Dec == <<"2", "0", "2", "4", "/", "1", "2", "/", "3", "1">>
StrCurrently == <<"c", "u", "r", "r", "e", "n", "t", "l", "y", "-",
                  "r", "e", "a", "d", "i", "n", "g">>
StrDnf == <<"d", "n", "f">>

\* The row with the columns of f that hold a text; `undefined` leaves the column out.
MkRow(f) == [c \in {x \in DOMAIN f : f[x] # undefined} |-> f[c]]

GoodreadsRow(title, author, pages, rating, dateRead, dateAdded, shelf) ==
    MkRow(("Title" :> title) @@ ("Author" :> author)
          @@ ("Number of Pages" :> pages) @@ ("My Rating" :> rating)
          @@ ("Date Read" :> dateRead) @@ ("Date Added" :> dateAdded)
          @@ ("Exclusive Shelf" :> shelf))

StorygraphRow(title, authors, pages, rating, readDate, status) ==
    MkRow(("Title" :> title) @@ ("Authors" :> authors)
          @@ ("Pages" :> pages) @@ ("Star Rating" :> rating)
          @@ ("Read Date" :> readDate) @@ ("Read Status" :> status))

\* Every Goodreads row over the texts above, each column present or missing.
GoodreadsRowsAll ==
    { GoodreadsRow(ti, au, pg, rt, dr, da, sh) :
        ti \in {undefined, StrT},
        au \in {undefined, StrN, StrNG, StrL},
        pg \in {undefined, StrEmpty, StrAb, StrNeg5, Str320},
        rt \in {undefined, Str0, Str4},
        dr \in {undefined, StrEmpty, StrNa, Str2025Mar, Str2024Dec},
        da \in {undefined, StrEmpty, StrNa, Str2025Jan, Str2024Dec},
        sh \in {undefined, ShelfRead, ShelfToRead, StrCurrently} }

StorygraphRowsAll ==
    { StorygraphRow(StrT, au, pg, rt, dr, st) :
        au \in {undefined, StrN},
        pg \in {undefined, StrNeg5, Str320},
        rt \in {undefined, StrAb, Str425},
        dr \in {undefined, StrNa, Str2025Mar, Str2024Dec},
        st \in {undefined, ShelfRead, ShelfToRead, StrDnf} }

\* Rows of a well-formed Goodreads export.
RowRead == GoodreadsRow(StrT, StrN, Str320, Str4, Str2025Mar, Str2024Dec, ShelfRead)
RowReadNoDate == GoodreadsRow(StrT, StrNG, Str500, Str5, StrEmpty, Str2025Jan, ShelfRead)
RowToRead == GoodreadsRow(StrT, StrL, Str320, Str0, StrEmpty, Str2025Jan, ShelfToRead)
RowReadOtherYear == GoodreadsRow(StrT, StrL, Str320, Str4, Str2024Dec, Str2025Jan, ShelfRead)

\* A second five-star book, as long as RowRead; an unrated book whose author is
\* written with a digit.
RowReadLee == GoodreadsRow(StrU, StrL, Str320, Str5, Str2025Mar, Str2024Dec, ShelfRead)
RowReadUnrated == GoodreadsRow(StrU, Str7, Str500, Str0, Str2025Mar, Str2024Dec, ShelfRead)

\* Two short books, of four and of three stars.
RowShortFour == GoodreadsRow(StrT, StrN, Str250, Str4, Str2025Mar, Str2024Dec, ShelfRead)
RowShortThree == GoodreadsRow(StrU, StrL, Str250, Str3, Str2025Mar, Str2024Dec, ShelfRead)

\* A row of an export that has no Author column.
RowReadNoAuthor == GoodreadsRow(StrT, undefined, Str320, Str4, Str2025Mar, Str2024Dec, ShelfRead)

CoreRows == {RowRead, RowReadNoDate, RowToRead, RowReadOtherYear, RowReadLee, RowReadUnrated}
BulkRows == {RowRead, RowReadNoDate, RowToRead, RowReadLee, RowReadUnrated}

BoundedSeqs(S, n) == UNION {[1..k -> S] : k \in 0..n}

Rep(r, n) == [i \in 1..n |-> r]

Upload(rows, source) == [rows |-> rows, source |-> source]

NoUpload == [rows |-> <<>>, source |-> "none"]

\* The files the pipeline is run on: every one-row file of either format, the
\* short files over CoreRows, the files of up to MaxBulk copies of one row
\* followed by up to MaxBulk copies of another, and the long files of LongRun
\* short four-star books followed by up to MaxBulk short three-star books.
PipeUploads ==
    {Upload(<<r>>, "goodreads") : r \in GoodreadsRowsAll}
    \cup {Upload(<<r>>, "storygraph") : r \in StorygraphRowsAll}
    \cup {Upload(rows, "goodreads") : rows \in BoundedSeqs(CoreRows, MaxRows)}
    \cup {Upload(Rep(a, n) \o Rep(b, m), "goodreads") :
            a \in BulkRows, b \in BulkRows, n \in 0..MaxBulk, m \in 0..MaxBulk}
    \cup {Upload(Rep(RowShortFour, LongRun) \o Rep(RowShortThree, m), "goodreads") :
            m \in 0..MaxBulk}

\* The files the user of the app picks. The page has a file input for Goodreads
\* only (the StoryGraph card has none).
AppUploads ==
    {Upload(rows, "goodreads") : rows \in
        { <<>>,
          <<RowToRead>>,
          <<RowRead, RowReadNoDate>>,
          <<RowReadNoAuthor>>,
          Rep(RowToRead, 6) \o <<RowRead>> }}

Usernames == {<<" ">>, <<"A">>, <<"B">>}

-----------------------------------------------------------------------------
(* The app *)

NoResult == [readData |-> <<>>, tbrCount |-> 0, aura |-> "", again |-> FALSE]

InitApp ==
    /\ readData = <<>>
    /\ tbrCount = 0
    /\ view = "upload"
    /\ currentSlide = 0
    /\ username = <<>>
    /\ pending = <<>>
    /\ lastStarted = NoUpload
    /\ lastDone = NoUpload
    /\ crashed = FALSE
    /\ alerted = FALSE
    /\ renderedSlide = 0
    /\ lastResult = NoResult
    /\ uploadSinceClose = FALSE

InitHarness ==
    /\ statsIn = [tbr |-> 0, total |-> 0, avgP |-> 0, avgR |-> [num |-> 0, den |-> 1]]
    /\ auraOut = ""

Init == InitApp /\ InitHarness

\* A name input that also clears the backlog count.
SetUsername_ClearsBacklog(u) ==
    /\ ~crashed
    /\ view = "upload"
    /\ u # username
    /\ username' = u
    /\ tbrCount' = 0
    /\ renderedSlide' = currentSlide
    /\ UNCHANGED <<readData, view, currentSlide, pending, lastStarted, lastDone,
                   crashed, alerted, lastResult, uploadSinceClose, statsIn, auraOut>>

\* onChange of the name input (rendered in the upload view), and the re-render.
SetUsername(u) ==
    /\ ~crashed
    /\ view = "upload"
    /\ u # username
    /\ username' = u
    /\ renderedSlide' = currentSlide
    /\ UNCHANGED <<readData, tbrCount, view, currentSlide, pending, lastStarted, lastDone,
                   crashed, alerted, lastResult, uploadSinceClose, statsIn, auraOut>>

\* processCSV: Papa.parse starts reading the file; its complete callback fires later.
processCSV(up) ==
    /\ pending' = Append(pending, up)
    /\ lastStarted' = up

\* A file handler that starts the parse without looking at the name.
handleFileUpload_NoNameCheck(up) ==
    /\ ~crashed
    /\ view = "upload"
    /\ Len(pending) < MaxPending
    /\ processCSV(up)
    /\ uploadSinceClose' = TRUE
    /\ UNCHANGED <<readData, tbrCount, view, currentSlide, username, lastDone, crashed,
                   alerted, renderedSlide, lastResult, statsIn, auraOut>>

\* onChange of the file input (rendered in the upload view). No state is set, so
\* nothing is rendered again.
handleFileUpload(up) ==
    /\ ~crashed
    /\ view = "upload"
    /\ IF trim(username) = <<>>
       THEN /\ alerted' = TRUE                    \* alert, input cleared, return
            /\ UNCHANGED <<pending, lastStarted, uploadSinceClose>>
       ELSE /\ Len(pending) < MaxPending
            /\ processCSV(up)
            /\ uploadSinceClose' = TRUE
            /\ UNCHANGED alerted
    /\ UNCHANGED <<readData, tbrCount, view, currentSlide, username, lastDone, crashed,
                   renderedSlide, lastResult, statsIn, auraOut>>

RemoveAt(s, i) == SubSeq(s, 1, i - 1) \o SubSeq(s, i + 1, Len(s))

\* What a completion leaves for the render: the two values set, and the persona
\* the render computes from them (none when the render throws).
ResultOf(data, tbr, up) ==
    [readData |-> data,
     tbrCount |-> tbr,
     aura |-> IF RenderThrows(data) THEN "" ELSE auraOf(data, tbr),
     again |-> (lastDone = up)]

\* A completion that appends to the records already held instead of replacing them.
Complete_Merge(i) ==
    /\ ~crashed
    /\ i \in 1..Len(pending)
    /\ LET up == pending[i]
           allBooks == allBooksOf(up.rows, up.source)
           readIn2025 == readIn2025Of(allBooks)
           addedToTbr2025 == addedToTbr2025Of(allBooks)
       IN  /\ readData' = readData \o readIn2025
           /\ tbrCount' = tbrCount + Len(addedToTbr2025)
           /\ view' = "story"
           /\ currentSlide' = 0
           /\ lastDone' = up
           /\ crashed' = RenderThrows(readData \o readIn2025)
           /\ lastResult' = ResultOf(readData \o readIn2025,
                                     tbrCount + Len(addedToTbr2025), up)
    /\ renderedSlide' = 0
    /\ pending' = RemoveAt(pending, i)
    /\ UNCHANGED <<username, lastStarted, alerted, uploadSinceClose, statsIn, auraOut>>

\* A completion that adds to the backlog count instead of replacing it.
Complete_AddsBacklog(i) ==
    /\ ~crashed
    /\ i \in 1..Len(pending)
    /\ LET up == pending[i]
           allBooks == allBooksOf(up.rows, up.source)
           readIn2025 == readIn2025Of(allBooks)
           addedToTbr2025 == addedToTbr2025Of(allBooks)
       IN  /\ readData' = readIn2025
           /\ tbrCount' = tbrCount + Len(addedToTbr2025)
           /\ view' = "story"
           /\ currentSlide' = 0
           /\ lastDone' = up
           /\ crashed' = RenderThrows(readIn2025)
           /\ lastResult' = ResultOf(readIn2025, tbrCount + Len(addedToTbr2025), up)
    /\ renderedSlide' = 0
    /\ pending' = RemoveAt(pending, i)
    /\ UNCHANGED <<username, lastStarted, alerted, uploadSinceClose, statsIn, auraOut>>

\* A completion that leaves the slide index as it is.
Complete_KeepsSlide(i) ==
    /\ ~crashed
    /\ i \in 1..Len(pending)
    /\ LET up == pending[i]
           allBooks == allBooksOf(up.rows, up.source)
           readIn2025 == readIn2025Of(allBooks)
           addedToTbr2025 == addedToTbr2025Of(allBooks)
       IN  /\ readData' = readIn2025
           /\ tbrCount' = Len(addedToTbr2025)
           /\ view' = "story"
           /\ lastDone' = up
           /\ crashed' = RenderThrows(readIn2025)
           /\ lastResult' = ResultOf(readIn2025, Len(addedToTbr2025), up)
    /\ renderedSlide' = currentSlide
    /\ pending' = RemoveAt(pending, i)
    /\ UNCHANGED <<currentSlide, username, lastStarted, alerted, uploadSinceClose,
                   statsIn, auraOut>>

\* The complete callback of the i-th parse in flight, and the render that follows.
Complete(i) ==
    /\ ~crashed
    /\ i \in 1..Len(pending)
    /\ LET up == pending[i]
           allBooks == allBooksOf(up.rows, up.source)
           readIn2025 == readIn2025Of(allBooks)
           addedToTbr2025 == addedToTbr2025Of(allBooks)
       IN  /\ readData' = readIn2025
           /\ tbrCount' = Len(addedToTbr2025)
           /\ view' = "story"
           /\ currentSlide' = 0
           /\ lastDone' = up
           /\ crashed' = RenderThrows(readIn2025)
           /\ lastResult' = ResultOf(readIn2025, Len(addedToTbr2025), up)
    /\ renderedSlide' = 0
    /\ pending' = RemoveAt(pending, i)
    /\ UNCHANGED <<username, lastStarted, alerted, uploadSinceClose, statsIn, auraOut>>

\* onClick of the X button (rendered in the story view), and the re-render.
CloseStory ==
    /\ ~crashed
    /\ view = "story"
    /\ view' = "upload"
    /\ readData' = <<>>
    /\ uploadSinceClose' = FALSE
    /\ renderedSlide' = currentSlide
    /\ UNCHANGED <<tbrCount, currentSlide, username, pending, lastStarted, lastDone,
                   crashed, alerted, lastResult, statsIn, auraOut>>

\* The callbacks of one render: the test reads the currentSlide of that render,
\* the update is applied to the currentSlide held when it runs.
SlideAfterNext == IF renderedSlide < NumSlides - 1 THEN currentSlide + 1 ELSE currentSlide
SlideAfterPrev == IF renderedSlide > 0 THEN currentSlide - 1 ELSE currentSlide

\* nextSlide: the right click zone of the story view, or ArrowRight on the window,
\* and the re-render that follows the event.
nextSlide ==
    /\ ~crashed
    /\ currentSlide' = SlideAfterNext
    /\ renderedSlide' = currentSlide'
    /\ UNCHANGED <<readData, tbrCount, view, username, pending, lastStarted, lastDone,
                   crashed, alerted, lastResult, uploadSinceClose, statsIn, auraOut>>

\* prevSlide: the left click zone of the story view, or ArrowLeft on the window,
\* and the re-render that follows the event.
prevSlide ==
    /\ ~crashed
    /\ currentSlide' = SlideAfterPrev
    /\ renderedSlide' = currentSlide'
    /\ UNCHANGED <<readData, tbrCount, view, username, pending, lastStarted, lastDone,
                   crashed, alerted, lastResult, uploadSinceClose, statsIn, auraOut>>

Next ==
    \/ \E u \in Usernames : SetUsername(u)
    \/ \E up \in AppUploads : handleFileUpload(up)
    \/ \E i \in 1..MaxPending : Complete(i)
    \/ CloseStory
    \/ nextSlide
    \/ prevSlide

Spec == Init /\ [][Next]_vars

-----------------------------------------------------------------------------
(* The story with renders that lag behind key events *)

\* The window's keydown listener. It is subscribed by an effect of a render and
\* calls the nextSlide / prevSlide of that render; the state it sets is rendered,
\* and the listener replaced, later (Render).
handleKeyDown(key) ==
    /\ ~crashed
    /\ currentSlide' = (IF key = "ArrowRight" THEN SlideAfterNext ELSE SlideAfterPrev)
    /\ currentSlide' >= 0 - MaxOverrun
    /\ currentSlide' <= NumSlides - 1 + MaxOverrun
    /\ UNCHANGED <<readData, tbrCount, view, username, pending, lastStarted, lastDone,
                   crashed, alerted, renderedSlide, lastResult, uploadSinceClose,
                   statsIn, auraOut>>

\* The re-render after key events, and its effect that subscribes the new listener.
Render ==
    /\ ~crashed
    /\ renderedSlide # currentSlide
    /\ renderedSlide' = currentSlide
    /\ UNCHANGED <<readData, tbrCount, view, currentSlide, username, pending, lastStarted,
                   lastDone, crashed, alerted, lastResult, uploadSinceClose, statsIn, auraOut>>

SlideUpload == Upload(<<RowRead, RowReadNoDate>>, "goodreads")

InitSlides ==
    /\ readData = <<>>
    /\ tbrCount = 0
    /\ view = "upload"
    /\ currentSlide = 0
    /\ username = <<"A">>
    /\ pending = <<>>
    /\ lastStarted = NoUpload
    /\ lastDone = NoUpload
    /\ crashed = FALSE
    /\ alerted = FALSE
    /\ renderedSlide = 0
    /\ lastResult = NoResult
    /\ uploadSinceClose = FALSE
    /\ InitHarness

NextSlides ==
    \/ handleFileUpload(SlideUpload)
    \/ \E i \in 1..MaxPending : Complete(i)
    \/ CloseStory
    \/ nextSlide
    \/ prevSlide
    \/ \E key \in {"ArrowRight", "ArrowLeft"} : handleKeyDown(key)
    \/ Render

SpecSlides == InitSlides /\ [][NextSlides]_vars

-----------------------------------------------------------------------------
(* The pipeline alone: one upload in flight, drawn from PipeUploads *)

InitPipe ==
    /\ readData = <<>>
    /\ tbrCount = 0
    /\ view = "upload"
    /\ currentSlide = 0
    /\ username = <<"A">>
    /\ pending \in {<<up>> : up \in PipeUploads}
    /\ lastStarted = pending[1]
    /\ lastDone = NoUpload
    /\ crashed = FALSE
    /\ alerted = FALSE
    /\ renderedSlide = 0
    /\ lastResult = NoResult
    /\ uploadSinceClose = TRUE
    /\ InitHarness

NextPipe == Complete(1)

SpecPipe == InitPipe /\ [][NextPipe]_vars

-----------------------------------------------------------------------------
(* The classifier alone: getAura applied to a statistics vector *)

StatsGrid ==
    { [tbr |-> t, total |-> n, avgP |-> p, avgR |-> [num |-> r, den |-> RatingScale]] :
        t \in {0, 5, 6, 7, 10, 40, 41, 60, 61},
        n \in {1, 3, 14, 15, 20, 21, 30},
        p \in {0, 200, 299, 300, 350, 351, 450, 451},
        r \in {0, 350, 379, 380, 399, 400, 419, 420, 500} }
    \cup { [tbr |-> t, total |-> 0, avgP |-> 0, avgR |-> [num |-> 0, den |-> 1]] :
        t \in {0, 5, 6, 7} }

InitAura ==
    /\ InitApp
    /\ statsIn \in StatsGrid
    /\ auraOut = ""

Classify ==
    /\ auraOut = ""
    /\ auraOut' = getAura(statsIn.tbr, statsIn.total, statsIn.avgP, statsIn.avgR)
    /\ UNCHANGED <<appVars, statsIn>>

NextAura == Classify

SpecAura == InitAura /\ [][NextAura]_vars

-----------------------------------------------------------------------------
(* Properties *)

\* The books and the raw rows of the upload whose callback fired last.
DoneBooks == allBooksOf(lastDone.rows, lastDone.source)
DoneRows == lastDone.rows

Present(d) == d # null
Absent(d) == d = null
InTargetYear(d) == d.t = "date" /\ d.y = 2025

\* The year-inclusion rule as the specification words it.
InYearRule(b) ==
    /\ b.shelf = ShelfRead
    /\ \/ Present(b.dateRead) /\ InTargetYear(b.dateRead)
       \/ Absent(b.dateRead) /\ Present(b.dateAdded) /\ InTargetYear(b.dateAdded)

\* The records of DoneBooks the rule includes, in order, as normalised.
RuleKept == FilterSeq(DoneBooks, [i \in 1..Len(DoneBooks) |-> InYearRule(DoneBooks[i])])

\* C1: after an upload's callback, readData holds exactly the records of the
\* upload that are on the read shelf and have either a dateRead in 2025 or no
\* dateRead and a dateAdded in 2025, in the upload's order (each as normalised,
\* but for a filled-in dateRead).
C1_YearInclusion ==
    lastDone # NoUpload =>
        /\ Len(readData) = Len(RuleKept)
        /\ \A k \in 1..Len(readData) :
              [readData[k] EXCEPT !.dateRead = RuleKept[k].dateRead] = RuleKept[k]

C1_Witness ==
    /\ lastDone # NoUpload
    /\ Len(readData) = 1
    /\ \E i \in 1..Len(DoneBooks) :
          /\ DoneBooks[i].shelf = ShelfRead
          /\ Present(DoneBooks[i].dateRead) /\ ~InTargetYear(DoneBooks[i].dateRead)
          /\ Present(DoneBooks[i].dateAdded) /\ InTargetYear(DoneBooks[i].dateAdded)
    /\ \E i \in 1..Len(DoneBooks) :
          /\ DoneBooks[i].shelf = ShelfRead
          /\ Absent(DoneBooks[i].dateRead)
          /\ InTargetYear(DoneBooks[i].dateAdded)

\* The predicates of the persona table, over the classifier's input.
Branch1 == statsIn.tbr > 2 * statsIn.total /\ statsIn.tbr > 5
Branch2 == statsIn.total < 15 /\ statsIn.avgP > 450
Branch3 ==
    /\ statsIn.total > 20
    /\ statsIn.avgP < 300
    /\ 10 * statsIn.avgR.num < 38 * statsIn.avgR.den
Branch4 == statsIn.avgR.num >= 4 * statsIn.avgR.den /\ statsIn.avgP > 350
Branch5 == 10 * statsIn.avgR.num >= 42 * statsIn.avgR.den

\* C2: the classifier returns the descriptor of branch i exactly when predicate
\* i is true and the predicates before it are false, and always one of the six.
C2_FirstMatchTable ==
    auraOut # "" =>
        /\ auraOut \in AuraNames
        /\ auraOut = "COZY COLLECTOR" <=> Branch1
        /\ auraOut = "DEEP DIVER" <=> ~Branch1 /\ Branch2
        /\ auraOut = "SPEEDY SKEPTIC" <=> ~Branch1 /\ ~Branch2 /\ Branch3
        /\ auraOut = "THOROUGH ENJOYER" <=>
              ~Branch1 /\ ~Branch2 /\ ~Branch3 /\ Branch4
        /\ auraOut = "SOFT ENTHUSIAST" <=>
              ~Branch1 /\ ~Branch2 /\ ~Branch3 /\ ~Branch4 /\ Branch5
        /\ auraOut = "BALANCED REALIST" <=>
              ~Branch1 /\ ~Branch2 /\ ~Branch3 /\ ~Branch4 /\ ~Branch5

\* 30 books, 200 pages on average, 3.5 stars on average, backlog 10: branch 3.
C2_Witness ==
    /\ statsIn = [tbr |-> 10, total |-> 30, avgP |-> 200,
                  avgR |-> [num |-> 350, den |-> 100]]
    /\ auraOut = "SPEEDY SKEPTIC"

\* C3: when the predicates of branch 4 and of branch 5 are both true the
\* classifier never returns SOFT ENTHUSIAST, and it returns THOROUGH ENJOYER
\* when none of the branches 1 to 3 matches.
C3_Branch4BeforeBranch5 ==
    (auraOut # "" /\ Branch4 /\ Branch5) =>
        /\ auraOut # "SOFT ENTHUSIAST"
        /\ (~Branch1 /\ ~Branch2 /\ ~Branch3) => auraOut = "THOROUGH ENJOYER"

C3_Witness ==
    /\ Branch4 /\ Branch5
    /\ ~Branch1 /\ ~Branch2 /\ ~Branch3
    /\ auraOut = "THOROUGH ENJOYER"

\* C4 as claimed: when no book of the upload matches the inclusion rule the
\* persona is BALANCED REALIST, whatever the backlog count.
C4_EmptyIsFallback ==
    (lastDone # NoUpload /\ Len(readData) = 0) =>
        auraOf(readData, tbrCount) = "BALANCED REALIST"

\* C4 as amended: when no book of the upload matches the inclusion rule the
\* persona is BALANCED REALIST if the backlog count is at most 5, and COZY
\* COLLECTOR (branch 1) if it is more.
C4_EmptyIsFallbackUpTo5 ==
    (lastDone # NoUpload /\ Len(readData) = 0) =>
        auraOf(readData, tbrCount) =
            IF tbrCount <= 5 THEN "BALANCED REALIST" ELSE "COZY COLLECTOR"

C4_Witness ==
    /\ lastDone # NoUpload
    /\ Len(readData) = 0
    /\ tbrCount = 5
    /\ auraOf(readData, tbrCount) = "BALANCED REALIST"

\* The counts getMostActiveMonth keeps for the twelve months, added up.
SumMonthCounts == SumOver(Rep(0, 12), [m \in 1..12 |-> monthCountOf(readData, Num(m - 1))])

\* C5: every record of readData has a dateRead in 2025; a record accepted with
\* no dateRead has its dateAdded as dateRead and is counted under that month;
\* the month counts add up to totalBooks.
C5_Backfill ==
    lastDone # NoUpload =>
        /\ \A k \in 1..Len(readData) :
              Present(readData[k].dateRead) /\ InTargetYear(readData[k].dateRead)
        /\ Len(readData) = Len(RuleKept) =>
              \A k \in 1..Len(readData) :
                  Absent(RuleKept[k].dateRead) =>
                      /\ readData[k].dateRead = RuleKept[k].dateAdded
                      /\ monthCountOf(readData, Num(RuleKept[k].dateAdded.m)) >= 1
        /\ SumMonthCounts = totalBooksOf(readData)

\* A record with no dateRead, added in January, counted under January beside
\* a record read in March.
C5_Witness ==
    /\ lastDone # NoUpload
    /\ Len(readData) = 2
    /\ Len(RuleKept) = 2
    /\ \E k \in 1..2 :
          /\ Absent(RuleKept[k].dateRead)
          /\ readData[k].dateRead = RuleKept[k].dateAdded
    /\ monthCountOf(readData, Num(0)) = 1
    /\ monthCountOf(readData, Num(2)) = 1

\* C6 as claimed: no render that follows an upload's callback throws.
C6_PipelineTotal == ~crashed

\* A date column that holds a text which is not a date.
Malformed(text) == Truthy(text) /\ NewDate(text) = InvalidDate

\* The rows of the upload that claim C7 is about.
MalformedReadRows ==
    {i \in 1..Len(DoneRows) :
        /\ Field(DoneRows[i], "Exclusive Shelf") = ShelfRead
        /\ Malformed(Field(DoneRows[i], "Date Read"))
        /\ Truthy(Field(DoneRows[i], "Date Added"))
        /\ InTargetYear(NewDate(Field(DoneRows[i], "Date Added")))}

\* C7 as claimed: a Goodreads row on the read shelf with an unparseable Date
\* Read and a Date Added in 2025 is included in readData, beside the rows the
\* inclusion rule includes.
C7_MalformedDateIsAbsent ==
    (lastDone # NoUpload /\ lastDone.source = "goodreads") =>
        Len(readData) >= Len(RuleKept) + Cardinality(MalformedReadRows)

\* C8 as claimed: no record has a negative page count.
C8_PagesNonNegative ==
    \A k \in 1..Len(readData) : readData[k].pages >= 0

\* The backlog rule as the specification words it.
BacklogRule(b) ==
    b.shelf = ShelfToRead /\ Present(b.dateAdded) /\ InTargetYear(b.dateAdded)

\* C9: after an upload's callback, tbrCount is the number of the upload's
\* records on the to-read shelf with a dateAdded in 2025.
C9_BacklogCount ==
    lastDone # NoUpload =>
        tbrCount = Cardinality({i \in 1..Len(DoneBooks) : BacklogRule(DoneBooks[i])})

\* A to-read record read in 2025 and not added in 2025 is not counted.
C9_Witness ==
    /\ lastDone # NoUpload
    /\ tbrCount = 0
    /\ \E i \in 1..Len(DoneBooks) :
          /\ DoneBooks[i].shelf = ShelfToRead
          /\ InTargetYear(DoneBooks[i].dateRead)
          /\ Present(DoneBooks[i].dateAdded)

\* C10 as claimed: once no callback is outstanding, the story shows the data
\* of the upload that was started last.
C10_LatestUploadWins ==
    (pending = <<>> /\ view = "story") =>
        /\ readData = readIn2025Of(allBooksOf(lastStarted.rows, lastStarted.source))
        /\ tbrCount = Len(addedToTbr2025Of(allBooksOf(lastStarted.rows, lastStarted.source)))


\* C11: once the complete callback of an upload has run, readData and tbrCount are
\* determined by the rows of that upload alone: readData is the list of its records
\* that the year rule keeps (back-filled), tbrCount the number of its records that the
\* backlog rule counts, whatever uploads, closes and slide moves came before. No record
\* of an earlier upload remains. (Closing the story empties readData afterwards.)
C11_ReplacesWholesale ==
    lastDone # NoUpload =>
        /\ tbrCount = Cardinality({k \in 1..Len(DoneBooks) : BacklogRule(DoneBooks[k])})
        /\ view = "story" =>
              readData = [k \in 1..Len(RuleKept) |-> Backfill(RuleKept[k])]

\* An upload with two finished books completed first, then one with a single
\* to-read book: nothing of the first is left.
C11_Witness ==
    /\ pending = <<>>
    /\ view = "story"
    /\ lastStarted.rows = <<RowRead, RowReadNoDate>>
    /\ lastDone.rows = <<RowToRead>>
    /\ readData = <<>>
    /\ tbrCount = 1

\* C12: a file chosen while the name is empty or only whitespace starts no parse
\* (processCSV is not called: no parse is added to those in flight and no upload
\* becomes the last started), and the step that shows the prompt leaves readData,
\* tbrCount, view and currentSlide as they were.
C12_BlankNameRejected ==
    [][ /\ trim(username) = <<>> =>
              /\ lastStarted' = lastStarted
              /\ Len(pending') <= Len(pending)
        /\ (alerted' /\ ~alerted) =>
              /\ trim(username) = <<>>
              /\ UNCHANGED <<readData, tbrCount, view, currentSlide, pending, lastStarted>>
      ]_vars

\* A file was chosen with a name of one space: the prompt was shown, nothing started.
C12_Witness ==
    /\ alerted
    /\ username = <<" ">>
    /\ lastStarted = NoUpload
    /\ pending = <<>>
    /\ readData = <<>>
    /\ tbrCount = 0
    /\ view = "upload"
    /\ currentSlide = 0

MaxPagesOf(data) == CHOOSE p \in {data[i].pages : i \in 1..Len(data)} :
                        \A i \in 1..Len(data) : data[i].pages <= p

\* The positions of data that hold a record with the most pages.
ThickestAt(data) == {i \in 1..Len(data) : data[i].pages = MaxPagesOf(data)}

FirstOf(S) == CHOOSE i \in S : \A j \in S : i <= j
LastOf(S) == CHOOSE i \in S : \A j \in S : j <= i

\* C13 as claimed, over the uploads that have no negative page count: thickestBook
\* is a record of readData with the maximum pages, and when several records tie on
\* it, the one that comes first in readData.
C13_ThickestFirstOfTies ==
    (/\ lastDone # NoUpload
     /\ readData # <<>>
     /\ \A i \in 1..Len(readData) : readData[i].pages >= 0) =>
        thickestBookOf(readData) = readData[FirstOf(ThickestAt(readData))]

\* C13, amended: thickestBook is the record with the maximum pages that comes last
\* in readData, when that maximum is 0 or more; it is the initial value of the
\* fold (title '-', 0 pages) when readData is empty or holds negative counts only.
C13_ThickestLastOfTies ==
    lastDone # NoUpload =>
        IF readData # <<>> /\ MaxPagesOf(readData) >= 0
        THEN thickestBookOf(readData) = readData[LastOf(ThickestAt(readData))]
        ELSE thickestBookOf(readData) = ThickestSentinel

\* Two different books of 320 pages: the second one is the thickest book.
C13_Witness ==
    /\ lastDone.rows = <<RowRead, RowReadLee>>
    /\ Len(readData) = 2
    /\ readData[1].pages = readData[2].pages
    /\ readData[1] # readData[2]
    /\ thickestBookOf(readData) = readData[2]

Rated(data) == FilterSeq(data, [i \in 1..Len(data) |-> data[i].rating > 0])

\* a ranks strictly higher than b: a higher rating, or the same rating and more pages.
RanksHigher(a, b) ==
    \/ a.rating > b.rating
    \/ a.rating = b.rating /\ a.pages > b.pages

\* How many times x occurs in s.
CountIn(s, x) == Cardinality({i \in 1..Len(s) : s[i] = x})

\* C14: topBooks holds only records of readData with a rating above 0, at most 5 of
\* them, ordered by rating descending and, within a rating, by pages descending;
\* no rated record left out ranks higher than one that is in it.
C14_TopBooks ==
    lastDone # NoUpload =>
        LET top == topBooksOf(readData)
            rated == Rated(readData)
        IN  /\ Len(top) <= 5
            /\ Len(top) = (IF Len(rated) < 5 THEN Len(rated) ELSE 5)
            /\ \A k \in 1..Len(top) :
                  /\ top[k].rating > 0
                  /\ CountIn(top, top[k]) <= CountIn(readData, top[k])
            /\ \A k \in 1..(Len(top) - 1) : ~RanksHigher(top[k + 1], top[k])
            /\ \A i \in 1..Len(rated) :
                  CountIn(top, rated[i]) < CountIn(rated, rated[i]) =>
                      \A k \in 1..Len(top) : ~RanksHigher(rated[i], top[k])

\* Three five-star books of 320 pages, then three of 500: the list is cut to five,
\* the longer books come first and one of the shorter ones is left out.
C14_Witness ==
    /\ lastDone.rows = Rep(RowReadLee, 3) \o Rep(RowReadNoDate, 3)
    /\ Len(readData) = 6
    /\ Len(topBooksOf(readData)) = 5
    /\ topBooksOf(readData)[1] = readData[4]
    /\ topBooksOf(readData)[3] = readData[6]
    /\ topBooksOf(readData)[4] = readData[1]

\* The entry of topAuthors under key, or <<>> when there is none.
EntriesUnder(entries, key) == SelectSeq(entries, LAMBDA e : e[1] = key)

\* C15: when the render completes, records whose author texts differ only by a
\* parenthetical suffix are counted under one key (the text before the '(',
\* trimmed) whose count is the number of all of them, and the counts over all
\* keys add up to totalBooks.
C15_AuthorsCollapse ==
    (lastDone # NoUpload /\ ~crashed) =>
        LET entries == authorEntriesOf(readData)
        IN  /\ SumOver(entries, [k \in 1..Len(entries) |-> entries[k][2]])
                  = totalBooksOf(readData)
            /\ \A k, l \in 1..Len(entries) : entries[k][1] = entries[l][1] => k = l
            /\ \A i \in 1..Len(readData) :
                  readData[i].author \in {StrN, StrNG} =>
                      /\ Len(EntriesUnder(entries, StrN)) = 1
                      /\ EntriesUnder(entries, StrN)[1][2]
                            = Cardinality({j \in 1..Len(readData) :
                                              readData[j].author \in {StrN, StrNG}})

\* 'N' once and 'N (G)' once: one key 'N' with count 2.
C15_Witness ==
    /\ ~crashed
    /\ lastDone.rows = <<RowRead, RowReadNoDate>>
    /\ readData[1].author = StrN
    /\ readData[2].author = StrNG
    /\ authorEntriesOf(readData) = << <<StrN, 2>> >>

\* The position in data of the first record whose clean author is key.
FirstAppearance(data, key) ==
    FirstOf({i \in 1..Len(data) : cleanAuthor(data[i].author) = key})

\* C16: when the render completes, topAuthors holds at most 5 keys in descending
\* order of count, and keys with equal counts stand in the order in which they
\* first appear in readData.
C16_TopAuthorsOrder ==
    (lastDone # NoUpload /\ ~crashed) =>
        LET top == topAuthorsOf(readData)
        IN  /\ Len(top) <= 5
            /\ \A k \in 1..(Len(top) - 1) : top[k][2] >= top[k + 1][2]
            /\ \A k, l \in 1..Len(top) :
                  (k < l /\ top[k][2] = top[l][2]) =>
                      FirstAppearance(readData, top[k][1]) < FirstAppearance(readData, top[l][1])

\* The number of records of data read in month m (0 is January).
ReadInMonth(data, m) ==
    Cardinality({i \in 1..Len(data) :
        Present(data[i].dateRead) /\ data[i].dateRead.t = "date" /\ data[i].dateRead.m = m})

\* C17: when the render completes, peakMonth is the month in which most records of
\* readData were read, the lowest such month when several tie, with that count;
\* it is the sentinel "-" exactly when readData is empty.
C17_PeakMonth ==
    (lastDone # NoUpload /\ ~crashed) =>
        LET peak == getMostActiveMonth(readData)
        IN  /\ peak.dash <=> readData = <<>>
            /\ ~peak.dash =>
                  \E m \in 0..11 :
                      /\ peak.maxMonth = Num(m)
                      /\ peak.maxCount = ReadInMonth(readData, m)
                      /\ \A o \in 0..11 : ReadInMonth(readData, o) <= ReadInMonth(readData, m)
                      /\ \A o \in 0..(m - 1) : ReadInMonth(readData, o) < ReadInMonth(readData, m)

\* One book read in March, then one in January: January is the peak month.
C17_Witness ==
    /\ ~crashed
    /\ lastDone.rows = <<RowRead, RowReadNoDate>>
    /\ ReadInMonth(readData, 0) = 1
    /\ ReadInMonth(readData, 2) = 1
    /\ getMostActiveMonth(readData) = [dash |-> FALSE, maxMonth |-> Num(0), maxCount |-> 1]

\* C18: whenever readData is empty (before any upload, after an upload none of whose
\* rows is kept, after the story is closed), totalBooks, totalPages and avgPages
\* are 0, avgRating is the text "0.0", thickestBook is the sentinel with 0 pages,
\* topBooks and topAuthors are empty and peakMonth is the sentinel "-".
C18_EmptyDegenerates ==
    readData = <<>> =>
        /\ totalBooksOf(readData) = 0
        /\ totalPagesOf(readData) = 0
        /\ avgPagesOf(readData) = 0
        /\ avgRatingOf(readData) = <<"0", ".", "0">>
        /\ thickestBookOf(readData) = ThickestSentinel
        /\ thickestBookOf(readData).pages = 0
        /\ topBooksOf(readData) = <<>>
        /\ topAuthorsOf(readData) = <<>>
        /\ getMostActiveMonth(readData).dash

\* The story of an upload of zero rows is on screen.
C18_Witness ==
    /\ view = "story"
    /\ ~crashed
    /\ lastDone.source = "goodreads"
    /\ lastDone.rows = <<>>
    /\ readData = <<>>
    /\ avgRatingOf(readData) = <<"0", ".", "0">>

\* C19: after an upload's callback with at least one record kept, avgPages is
\* totalPages / totalBooks rounded to the nearest integer (halves up) and lies
\* between 0 and the largest page count of readData.
C19_AvgPagesInRange ==
    (lastDone # NoUpload /\ totalBooksOf(readData) > 0) =>
        LET n == totalBooksOf(readData)
            avg == avgPagesOf(readData)
        IN  /\ 2 * n * avg - n <= 2 * totalPagesOf(readData)
            /\ 2 * totalPagesOf(readData) < 2 * n * avg + n
            /\ 0 <= avg
            /\ avg <= MaxPagesOf(readData)

\* The number of tenths a displayed rating such as "4.2" stands for.
ShownTenths(text) == DigitsValue(SelectSeq(text, LAMBDA c : c \in Digits), 0)

EarlyPersonas == {"COZY COLLECTOR", "DEEP DIVER", "SPEEDY SKEPTIC"}

\* C20 as claimed: the rating thresholds of the persona apply to avgRating as
\* displayed with one decimal. With branches 1 to 3 false, a displayed rating of
\* 4.0 or more with avgPages above 350 gives THOROUGH ENJOYER and a displayed
\* rating of 4.2 or more gives THOROUGH ENJOYER or SOFT ENTHUSIAST; a displayed
\* rating of 3.8 never gives SPEEDY SKEPTIC.
C20_DisplayedRatingThresholds ==
    (lastDone # NoUpload /\ ~crashed) =>
        LET shown == ShownTenths(avgRatingOf(readData))
            persona == auraOf(readData, tbrCount)
        IN  /\ (shown >= 40 /\ avgPagesOf(readData) > 350 /\ persona \notin EarlyPersonas)
                  => persona = "THOROUGH ENJOYER"
            /\ (shown >= 42 /\ persona \notin EarlyPersonas)
                  => persona \in {"THOROUGH ENJOYER", "SOFT ENTHUSIAST"}
            /\ shown = 38 => persona # "SPEEDY SKEPTIC"

\* C20, amended: the thresholds apply to the mean rating itself, not to its
\* display. With branches 1 to 3 false, a mean of 4.0 or more with avgPages above
\* 350 gives THOROUGH ENJOYER and a mean of 4.2 or more gives THOROUGH ENJOYER or
\* SOFT ENTHUSIAST; a mean of 3.8 or more never gives SPEEDY SKEPTIC. A mean below
\* 4.0 never gives THOROUGH ENJOYER and a mean below 4.2 never SOFT ENTHUSIAST,
\* whatever its display.
C20_MeanRatingThresholds ==
    (lastDone # NoUpload /\ ~crashed) =>
        LET mean == avgRatingValOf(readData)
            persona == auraOf(readData, tbrCount)
        IN  /\ (mean.num >= 4 * mean.den /\ avgPagesOf(readData) > 350
                    /\ persona \notin EarlyPersonas)
                  => persona = "THOROUGH ENJOYER"
            /\ (10 * mean.num >= 42 * mean.den /\ persona \notin EarlyPersonas)
                  => persona \in {"THOROUGH ENJOYER", "SOFT ENTHUSIAST"}
            /\ 10 * mean.num >= 38 * mean.den => persona # "SPEEDY SKEPTIC"
            /\ persona = "THOROUGH ENJOYER" => mean.num >= 4 * mean.den
            /\ persona = "SOFT ENTHUSIAST" => 10 * mean.num >= 42 * mean.den

\* Four five-star books of 320 pages and an unrated one of 500: the mean is 4.0
\* exactly, avgPages is 356, the persona is THOROUGH ENJOYER.
C20_Witness ==
    /\ ~crashed
    /\ lastDone.rows = Rep(RowReadLee, 4) \o Rep(RowReadUnrated, 1)
    /\ avgRatingValOf(readData).num = 4 * avgRatingValOf(readData).den
    /\ avgRatingOf(readData) = <<"4", ".", "0">>
    /\ avgPagesOf(readData) = 356
    /\ auraOf(readData, tbrCount) = "THOROUGH ENJOYER"

\* C21: after an upload's callback, no record of the upload is both kept in
\* readData and counted in tbrCount, and totalBooks + tbrCount is at most the
\* number of rows of the upload.
C21_GroupsDisjoint ==
    lastDone # NoUpload =>
        /\ \A i \in 1..Len(DoneBooks) :
              ~(ReadIn2025Filter(DoneBooks[i]) /\ AddedToTbr2025Filter(DoneBooks[i]))
        /\ totalBooksOf(readData) + tbrCount <= Len(DoneRows)

\* A finished book and a to-read book added in 2025: one in each group.
C21_Witness ==
    /\ lastDone.rows = <<RowReadNoDate, RowToRead>>
    /\ Len(readData) = 1
    /\ tbrCount = 1

\* The statistics and the persona a render computes from a result.
RenderOf(result) ==
    [totalBooks |-> totalBooksOf(result.readData),
     totalPages |-> totalPagesOf(result.readData),
     avgPages |-> avgPagesOf(result.readData),
     avgRating |-> avgRatingOf(result.readData),
     thickestBook |-> thickestBookOf(result.readData),
     topBooks |-> topBooksOf(result.readData),
     peakMonth |-> getMostActiveMonth(result.readData),
     aura |-> result.aura]

\* C22: when the completion of an upload follows a completion of the same upload
\* (same rows, same format), whatever closes, slide moves and name edits came in
\* between, it leaves the same readData, the same tbrCount, the same statistics
\* and the same persona as the first time.
C22_Idempotent ==
    [][ (Len(pending') < Len(pending) /\ lastDone' = lastDone) =>
            /\ lastResult'.again
            /\ lastResult'.readData = lastResult.readData
            /\ lastResult'.tbrCount = lastResult.tbrCount
            /\ RenderOf(lastResult') = RenderOf(lastResult)
            /\ readData' = lastResult.readData
            /\ tbrCount' = lastResult.tbrCount
      ]_vars

\* The file of six to-read books and one finished book has completed a second
\* time: the backlog count is six again, not twelve.
C22_Witness ==
    /\ lastResult.again
    /\ view = "story"
    /\ lastDone.rows = Rep(RowToRead, 6) \o <<RowRead>>
    /\ Len(readData) = 1
    /\ tbrCount = 6
    /\ lastResult.aura = "COZY COLLECTOR"

\* C23: the name has no effect on what is computed. A step that changes username
\* changes nothing else of the app's data (readData, tbrCount, view, currentSlide,
\* the parses in flight), and what a completion leaves is determined by the rows
\* and the format of the upload alone, whatever the name is then.
C23_NameHasNoEffect ==
    [][ /\ username' # username =>
              UNCHANGED <<readData, tbrCount, view, currentSlide, pending, lastStarted,
                          lastDone, crashed, lastResult>>
        /\ Len(pending') < Len(pending) =>
              /\ lastResult'.readData = readIn2025Of(allBooksOf(lastDone'.rows, lastDone'.source))
              /\ lastResult'.tbrCount
                    = Len(addedToTbr2025Of(allBooksOf(lastDone'.rows, lastDone'.source)))
              /\ ~crashed' => lastResult'.aura = auraOf(lastResult'.readData, lastResult'.tbrCount)
              /\ readData' = lastResult'.readData
              /\ tbrCount' = lastResult'.tbrCount
      ]_vars

\* The story of the two-book file under the name 'B', after the same file has
\* completed before: the result is the one of the rows.
C23_Witness ==
    /\ username = <<"B">>
    /\ view = "story"
    /\ lastResult.again
    /\ lastDone.rows = <<RowRead, RowReadNoDate>>
    /\ Len(readData) = 2
    /\ tbrCount = 0

\* C24: in every reachable state totalBooks is the length of the readData held
\* and is not negative; while the story is rendered, the list the statistics and
\* the persona were computed from is the readData that the slides show.
C24_TotalIsLength ==
    /\ totalBooksOf(readData) = Len(readData)
    /\ totalBooksOf(readData) >= 0
    /\ (view = "story" /\ ~crashed) =>
          /\ lastResult.readData = readData
          /\ lastResult.aura = auraOf(readData, tbrCount)

\* One finished book and a backlog of six on screen: totalBooks is 1.
C24_Witness ==
    /\ view = "story"
    /\ ~crashed
    /\ lastDone.rows = Rep(RowToRead, 6) \o <<RowRead>>
    /\ tbrCount = 6
    /\ Len(readData) = 1
    /\ totalBooksOf(readData) = 1

\* The row's Read Status is the text 'read'.
StatusIsRead(row) ==
    "Read Status" \in DOMAIN row /\ row["Read Status"] = <<"r", "e", "a", "d">>

\* C25: after the callback of a StoryGraph upload, every record has shelf 'read'
\* exactly when the row's Read Status is the text 'read' and shelf 'to-read'
\* otherwise, and has no dateAdded; tbrCount is 0 and every record of readData
\* is a record of the upload as normalised, with its own dateRead in 2025.
C25_StorygraphNormalised ==
    lastDone.source = "storygraph" =>
        /\ \A i \in 1..Len(DoneBooks) :
              /\ DoneBooks[i].shelf = (IF StatusIsRead(DoneRows[i])
                                       THEN <<"r", "e", "a", "d">>
                                       ELSE <<"t", "o", "-", "r", "e", "a", "d">>)
              /\ DoneBooks[i].dateAdded = null
        /\ tbrCount = 0
        /\ \A k \in 1..Len(readData) :
              /\ \E i \in 1..Len(DoneBooks) : DoneBooks[i] = readData[k]
              /\ Present(readData[k].dateRead) /\ InTargetYear(readData[k].dateRead)

\* A StoryGraph row with status 'read' and a Read Date in 2025 is kept.
C25_Witness ==
    /\ lastDone.source = "storygraph"
    /\ StatusIsRead(lastDone.rows[1])
    /\ Len(readData) = 1
    /\ readData[1].shelf = ShelfRead
    /\ readData[1].dateAdded = null
    /\ tbrCount = 0

\* C26: whatever nextSlide / prevSlide events (clicks and arrow keys, several of
\* them handled by the callbacks of one render), uploads and closes happen,
\* currentSlide stays within 0..6, so that slides[currentSlide] is a slide.
C26_SlideInBounds ==
    currentSlide \in 0..(NumSlides - 1)

\* C27: whenever the story is shown the name is not blank, whatever the order of
\* name edits, upload starts and completion callbacks.
C27_StoryHasName ==
    view = "story" => trim(username) # <<>>

\* C28: once the story has been closed, the view changes back to 'story' (and
\* currentSlide is reset) only by the completion of an upload started after that
\* close: a step from 'upload' to 'story' after a close needs a parse started
\* since the close.
C28_ClosedStaysClosed ==
    [][ (view = "upload" /\ lastDone # NoUpload /\ view' = "story") => uploadSinceClose ]_vars

\* C29: while the upload view is shown (at the start and after every close)
\* readData is empty and tbrCount is 0, as in the initial state, and the persona
\* computed from them is the fallback BALANCED REALIST.
C29_CloseResets ==
    view = "upload" =>
        /\ readData = <<>>
        /\ tbrCount = 0
        /\ auraOf(readData, tbrCount) = "BALANCED REALIST"

\* C30: every step in which the view changes from 'upload' to 'story' ends with
\* currentSlide = 0, whatever the slide index was before the step (arrow keys move
\* it while the upload view is shown, and a close leaves it where it was).
C30_StoryOpensOnFirstSlide ==
    [][ (view = "upload" /\ view' = "story") => currentSlide' = 0 ]_vars

\* A later story session: the story is shown on slide 0 by a completion that
\* arrived after a close with no upload started since, for a file whose story had
\* already been shown before.
C30_Witness ==
    /\ view = "story"
    /\ currentSlide = 0
    /\ lastResult.again
    /\ ~uploadSinceClose
====
